---- MODULE Spec2Model ----
(***************************************************************************)
(* The chat controller of src/src/App.tsx: the conversation (messages and  *)
(* its mirror messagesRef), the input box, the loading flag, the handle of *)
(* the in-flight AbortController, the network calls that have been issued  *)
(* and have not settled yet, and the tab that is shown.                    *)
(*                                                                         *)
(* State updates follow React.  Every setMessages and setLoading is an     *)
(* update in the queue of the component; a render runs the updates of its  *)
(* lane in the order of the queue and keeps, from the first update it has   *)
(* to skip, every update queued, to run them again in the next render from *)
(* the state the skipped update was queued on.  An updater that runs again *)
(* writes the mirror again (line 120); the effect of lines 16-18 copies    *)
(* messages to the mirror only when a render has changed messages.         *)
(*  - The updates of a user event are rendered when its handler returns:   *)
(*    a handler and its render are one step.                               *)
(*  - fetch rejects a call in the task of the event that aborts it, so the *)
(*    continuation of an aborted call is the next step after that event;   *)
(*    its updates have the priority of the event and are rendered at once. *)
(*  - The continuation of a call that the network settles queues its       *)
(*    updates for the render that React schedules; a handler may run in    *)
(*    between.                                                             *)
(* Two things depend on the React the program is built with and on what    *)
(* React has rendered before, and are left open:                           *)
(*  - the render of a user event either takes the scheduled updates along  *)
(*    or skips them, having a lane of its own (ownLane);                   *)
(*  - setMessages(updater) either queues the updater or, when nothing is   *)
(*    queued, runs it at once to compute the state eagerly (runsNow).      *)
(*                                                                         *)
(* A string is a sequence of chunks; a chunk is one character or a literal *)
(* of the source kept in one piece.  Concatenation is \o.                  *)
(***************************************************************************)
EXTENDS Integers, Sequences, FiniteSets, TLC

VARIABLES
    OPENAI_API_KEY,  \* the configured credential (import of ./key), fixed
    messages,        \* useState<Message[]>
    messagesRef,     \* useRef mirror of messages
    input,           \* useState('') : the input box
    loading,         \* useState(false)
    inFlightAbort,   \* useRef<AbortController | null> : a call slot or Null
    activeTab,       \* useState<'chat' | 'class'>('chat')
    calls,           \* the fetches issued and not yet settled, by slot
    queue,           \* React's queue of the updates of messages and loading
                     \* that are not done with: from the first update that
                     \* no render has run yet, every update made since
    baseState,       \* the value of messages the first update of queue was
                     \* queued on; <<>> when queue is empty
    ownLane,         \* fixed: React renders the updates of a user event in
                     \* a lane of their own, without the scheduled ones
    answers,         \* the answers and failures, other than the report of
                     \* an abort, that the network has produced so far
    random,          \* the state of the generator behind Math.random()
    event            \* the handler that ran last: its name, the call it
                     \* started or resumed, the request it sent or the
                     \* response content it received, and for a resumed
                     \* call whether its signal had been aborted

vars == <<OPENAI_API_KEY, messages, messagesRef, input, loading,
          inFlightAbort, activeTab, calls, queue, baseState, ownLane,
          answers, random, event>>

----------------------------------------------------------------------------
(* Bounds of the model *)

MaxMsgs == 4

MaxCalls == 2

RandomPeriod == 2

MaxQueued == 6

MaxAnswers == 1

----------------------------------------------------------------------------
(* Values *)

Null == 0

Slots == 1..MaxCalls

WhiteSpace == {" ", "\t", "\n"}

Inputs == {<<" ">>, <<" ", "a", "\t">>}

Keys == {"Enter", "a"}

ApiKeys == {<<>>, <<"sk-key">>}

Tabs == {"chat", "class"}

Contents == {<<" ", "r", " ", "s", "\n">>}

Responses ==
    {[isString |-> TRUE, content |-> s] : s \in Contents}
        \cup {[isString |-> FALSE, content |-> <<>>]}

ErrBodies == {<<>>, <<"quota">>}

StatusLines == {<<"401 Unauthorized">>}

Undefined == <<"undefined">>

Errors ==
    {[name |-> "AbortError", message |-> <<"The user aborted a request.">>],
     [name |-> "TypeError", message |-> <<"Failed to fetch">>]}

SystemPrompt == <<"You are an assistant ...">>

ErrNoKey == <<"Error: No API key.">>

RequestAborted == <<"Request aborted">>

NoResponse == <<"No response">>

ErrorPrefix == <<"Error: ">>

RequestFailed == <<"request failed">>

FreeCall == [state |-> "free", aborted |-> FALSE]

----------------------------------------------------------------------------
(* Pure functions *)

RECURSIVE TrimStart(_)
TrimStart(s) ==
    IF s # <<>> /\ Head(s) \in WhiteSpace THEN TrimStart(Tail(s)) ELSE s

RECURSIVE TrimEnd(_)
TrimEnd(s) ==
    IF s # <<>> /\ s[Len(s)] \in WhiteSpace
    THEN TrimEnd(SubSeq(s, 1, Len(s) - 1))
    ELSE s

Trim(s) == TrimEnd(TrimStart(s))

\* Math.random() advances the generator; its values repeat with the
\* generator's period.
NextRandom(r) == (r + 1) % RandomPeriod

\* makeId: the id is the printed form of the random value
makeId(r) == <<"id", r>>

Message(id, text, sender) == [id |-> id, text |-> text, sender |-> sender]

apiMessages_SystemLast(conversation) ==
    [i \in 1..Len(conversation) |->
        [role |-> IF conversation[i].sender = "user" THEN "user" ELSE "assistant",
         content |-> conversation[i].text]]
    \o <<[role |-> "system", content |-> SystemPrompt]>>

\* the messages of the request body: the conversation mapped to roles, with
\* the system message put in front (unshift)
apiMessages(conversation) ==
    <<[role |-> "system", content |-> SystemPrompt]>> \o
    [i \in 1..Len(conversation) |->
        [role |-> IF conversation[i].sender = "user" THEN "user" ELSE "assistant",
         content |-> conversation[i].text]]

Pending == {c \in Slots : calls[c].state = "pending"}

Live == {c \in Pending : ~calls[c].aborted}

FreeSlot == CHOOSE c \in Slots : calls[c].state = "free" /\
                \A d \in Slots : calls[d].state = "free" => c <= d

Event(op, c, arg) == [op |-> op, call |-> c, arg |-> arg, aborted |-> FALSE]

\* An update of the queue.  kind "value" is setMessages(val); kind "reply"
\* is setMessages(prev => [...prev, botMsg]) with val = <<botMsg>>, the
\* updater also writing its result to the mirror.  setLoading is <<b>> when
\* setLoading(b) is called along with it, else <<>>.  lane is "S" for an
\* update with the priority of a user event that no render has run yet,
\* "D" for one that waits for the render React schedules, "N" for one that
\* has been rendered and is kept behind a skipped one.  eager: React ran
\* the updater when it was queued and kept the result.
Update(kind, val, setLoading) ==
    [kind |-> kind, val |-> val, lane |-> "S", eager |-> FALSE,
     setLoading |-> setLoading]

\* a render runs the update i of q: all of them, or all but the scheduled
Runs(q, all, i) == all \/ q[i].lane # "D"

Ran(q, all) == {i \in 1..Len(q) : Runs(q, all, i)}

Last(S) == CHOOSE i \in S : \A j \in S : j <= i

First(S) == CHOOSE i \in S : \A j \in S : i <= j

\* the value of messages after a render has gone through the first i
\* updates of q, starting from base
RECURSIVE StateAfter(_, _, _, _)
StateAfter(q, base, all, i) ==
    IF i = 0 THEN base
    ELSE LET prev == StateAfter(q, base, all, i - 1)
         IN  IF ~Runs(q, all, i) THEN prev
             ELSE IF q[i].kind = "value" THEN q[i].val
             ELSE prev \o q[i].val

\* the messages of the replies that wait for the render React schedules
Scheduled == SelectSeq(queue, LAMBDA u : u.lane = "D")

pendingUpdates == [i \in 1..Len(Scheduled) |-> Scheduled[i].val[1]]

----------------------------------------------------------------------------
(* State after construction *)

Init ==
    /\ OPENAI_API_KEY \in ApiKeys
    /\ messages = <<>>
    /\ messagesRef = <<>>
    /\ input = <<>>
    /\ loading = FALSE
    /\ inFlightAbort = Null
    /\ activeTab = "chat"
    /\ calls = [c \in Slots |-> FreeCall]
    /\ queue = <<>>
    /\ baseState = <<>>
    /\ ownLane \in BOOLEAN
    /\ answers = {}
    /\ random \in 0..(RandomPeriod - 1)
    /\ event = Event("init", Null, <<>>)

----------------------------------------------------------------------------
(* Handlers *)

\* The model lets a handler queue its update while the queue, should it be
\* kept, stays within MaxQueued with that update and with the update of the
\* continuation of the call the handler aborts.
QueueRoom ==
    Len(queue) + (IF inFlightAbort # Null THEN 2 ELSE 1) <= MaxQueued

\* The model stops accepting sends when the conversation could outgrow
\* MaxMsgs once every pending call has appended its reply, when no call
\* slot is free, or when the queue has no room.
HasRoom ==
    /\ Len(messagesRef) + Cardinality(Pending) + 2 <= MaxMsgs
    /\ \E c \in Slots : calls[c].state = "free"
    /\ QueueRoom

\* no call has been aborted whose continuation has yet to run: the
\* continuation of an aborted call runs before any other event
Quiet == Pending = Live

\* the chat panel is shown (line 213)
ChatShown == activeTab = "chat"

commit_KeepsLoading(q, all, ref) ==
    LET base == IF queue = <<>> THEN messages ELSE baseState
        ran == Ran(q, all)
        skipped == (1..Len(q)) \ ran
        writers == {i \in ran : q[i].kind = "reply" /\ ~q[i].eager}
        setters == {i \in ran : q[i].setLoading # <<>> /\ q[i].kind = "value"}
    IN  /\ messages' = StateAfter(q, base, all, Len(q))
        /\ messagesRef' =
              IF ran = {} THEN ref
              ELSE IF q[Last(ran)].kind = "value" /\ q[Last(ran)].lane = "N"
              THEN IF writers = {} THEN ref
                   ELSE StateAfter(q, base, all, Last(writers))
              ELSE messages'
        /\ loading' = IF setters = {} THEN loading
                      ELSE q[Last(setters)].setLoading[1]
        /\ queue' = IF skipped = {} THEN <<>>
                    ELSE [i \in 1..(Len(q) - First(skipped) + 1) |->
                            LET u == q[First(skipped) + i - 1]
                            IN  [u EXCEPT !.lane = IF @ = "D" /\ ~all
                                                   THEN "D" ELSE "N"]]
        /\ baseState' = IF skipped = {} THEN <<>>
                        ELSE StateAfter(q, base, all, First(skipped) - 1)

\* A render and its effects.  q is the queue with the updates of the step
\* added, all tells whether the render runs the scheduled updates too, ref
\* is the mirror as the handler leaves it.  The render goes through q from
\* the base state: a value replaces the state, an updater appends its
\* message and writes the result to the mirror unless React has its result
\* already.  Then the effect of lines 16-18 runs if messages is another
\* array than before: it is not when the last update the render ran is a
\* value that an earlier render has run already.  loading is what the last
\* setLoading the render ran has set.  From the first skipped update on,
\* the updates stay queued.
commit(q, all, ref) ==
    LET base == IF queue = <<>> THEN messages ELSE baseState
        ran == Ran(q, all)
        skipped == (1..Len(q)) \ ran
        writers == {i \in ran : q[i].kind = "reply" /\ ~q[i].eager}
        setters == {i \in ran : q[i].setLoading # <<>>}
    IN  /\ messages' = StateAfter(q, base, all, Len(q))
        /\ messagesRef' =
              IF ran = {} THEN ref
              ELSE IF q[Last(ran)].kind = "value" /\ q[Last(ran)].lane = "N"
              THEN IF writers = {} THEN ref
                   ELSE StateAfter(q, base, all, Last(writers))
              ELSE messages'
        /\ loading' = IF setters = {} THEN loading
                      ELSE q[Last(setters)].setLoading[1]
        /\ queue' = IF skipped = {} THEN <<>>
                    ELSE [i \in 1..(Len(q) - First(skipped) + 1) |->
                            LET u == q[First(skipped) + i - 1]
                            IN  [u EXCEPT !.lane = IF @ = "D" /\ ~all
                                                   THEN "D" ELSE "N"]]
        /\ baseState' = IF skipped = {} THEN <<>>
                        ELSE StateAfter(q, base, all, First(skipped) - 1)

\* onChange of the input box: setInput(e.target.value), and the render
\* that follows the handler
onChange(v) ==
    /\ Quiet
    /\ ChatShown
    /\ input' = v
    /\ commit(queue, ~ownLane, messagesRef)
    /\ event' = Event("onChange", Null, <<>>)
    /\ UNCHANGED <<OPENAI_API_KEY, ownLane, inFlightAbort, activeTab,
                   calls, answers, random>>

\* onClick of a tab button: setActiveTab, and the render that follows
setActiveTab(tab) ==
    /\ Quiet
    /\ activeTab' = tab
    /\ commit(queue, ~ownLane, messagesRef)
    /\ event' = Event("setActiveTab", Null, <<>>)
    /\ UNCHANGED <<OPENAI_API_KEY, ownLane, input, inFlightAbort,
                   calls, answers, random>>

\* onClick of a button of the class navigation, shown on the Class tab:
\* setClassSection, and the render that follows.  Which section of the
\* questions is shown is presentation and is not kept.
setClassSection ==
    /\ Quiet
    /\ ~ChatShown
    /\ commit(queue, ~ownLane, messagesRef)
    /\ event' = Event("setClassSection", Null, <<>>)
    /\ UNCHANGED <<OPENAI_API_KEY, ownLane, input, inFlightAbort, activeTab,
                   calls, answers, random>>

\* callOpenAI up to the await of fetch: abort the call the handle names,
\* install a fresh AbortController, issue the request.
callOpenAI(key, conversation) ==
    LET c == FreeSlot
        afterAbort ==
            IF inFlightAbort # Null
            THEN [calls EXCEPT ![inFlightAbort].aborted = TRUE]
            ELSE calls
    IN  /\ calls' = [afterAbort EXCEPT ![c] =
                        [state |-> "pending", aborted |-> FALSE]]
        /\ inFlightAbort' = c
        /\ event' = Event("send", c, apiMessages(conversation))

text_Untrimmed == input

\* const text = input.trim()
text == Trim(input)

HasKey_Always(key) == TRUE

\* the truthiness of the credential, as tested by !OPENAI_API_KEY
HasKey(key) == key # <<>>

appendNoKey_UserOnly(nextConversation) ==
    <<Update("value", nextConversation, <<>>)>>

\* the updates of the branch of send taken without a credential:
\* setMessages(nextConversation), and the updater that appends the fixed
\* error message after the user message
appendNoKey(nextConversation) ==
    LET botMsg == Message(makeId(NextRandom(random)), ErrNoKey, "bot")
    IN  <<Update("value", nextConversation, <<>>),
          Update("reply", <<botMsg>>, <<>>)>>

\* send up to its await (or to its return on the early paths), and the
\* render that follows the handler.  nextConversation is built from the
\* mirror as it is.
send ==
    IF text = <<>>
    THEN /\ event' = Event("send", Null, <<>>)
         /\ UNCHANGED <<OPENAI_API_KEY, messages, messagesRef, input, loading,
                        inFlightAbort, activeTab, calls, queue, baseState,
                        ownLane, answers, random>>
    ELSE LET userMsg == Message(makeId(random), text, "user")
             nextConversation == Append(messagesRef, userMsg)
         IN  /\ HasRoom
             /\ input' = <<>>
             /\ IF ~HasKey(OPENAI_API_KEY)
                THEN /\ commit(queue \o appendNoKey(nextConversation),
                               ~ownLane, nextConversation)
                     /\ random' = NextRandom(NextRandom(random))
                     /\ event' = Event("send", Null, <<>>)
                     /\ UNCHANGED <<inFlightAbort, calls>>
                ELSE /\ commit(Append(queue, Update("value", nextConversation,
                                                    <<TRUE>>)),
                               ~ownLane, nextConversation)
                     /\ random' = NextRandom(random)
                     /\ callOpenAI(OPENAI_API_KEY, nextConversation)
             /\ UNCHANGED <<OPENAI_API_KEY, ownLane, activeTab, answers>>

\* The Send button: disabled while loading
SendClick ==
    /\ Quiet
    /\ ChatShown
    /\ ~loading
    /\ send

\* onKeyDown of the input box
onKeyDown ==
    /\ Quiet
    /\ ChatShown
    /\ \E key \in Keys :
          IF key = "Enter" THEN send ELSE UNCHANGED vars

clearAll_KeepsLoading ==
    /\ Quiet
    /\ ChatShown
    /\ QueueRoom
    /\ calls' = IF inFlightAbort # Null
                THEN [calls EXCEPT ![inFlightAbort].aborted = TRUE]
                ELSE calls
    /\ inFlightAbort' = Null
    /\ input' = <<>>
    /\ commit(Append(queue, Update("value", <<>>, <<>>)), ~ownLane, <<>>)
    /\ event' = Event("clearAll", Null, <<>>)
    /\ UNCHANGED <<OPENAI_API_KEY, ownLane, activeTab, answers, random>>

\* clearAll and the render that follows it
clearAll ==
    /\ Quiet
    /\ ChatShown
    /\ QueueRoom
    /\ calls' = IF inFlightAbort # Null
                THEN [calls EXCEPT ![inFlightAbort].aborted = TRUE]
                ELSE calls
    /\ inFlightAbort' = Null
    /\ input' = <<>>
    /\ commit(Append(queue, Update("value", <<>>, <<FALSE>>)), ~ownLane, <<>>)
    /\ event' = Event("clearAll", Null, <<>>)
    /\ UNCHANGED <<OPENAI_API_KEY, ownLane, activeTab, answers, random>>

\* The rest of callOpenAI (its finally) and of send once the call c has
\* produced reply: the handle is reset, and the updater that appends the
\* reply is queued with setLoading(false).
\*  - The continuation of an aborted call runs in the task of the event
\*    that aborted it: its updates have that event's priority and are
\*    rendered at once.
\*  - Otherwise the updates wait for the render that React schedules.
\*    When nothing is queued React may run the updater at once, which
\*    writes the mirror (line 120) before any render; whether it does
\*    depends on what it has rendered before.
\* The model lets the network settle a call only while the queue is
\* shorter than MaxQueued, and lets it produce at most MaxAnswers
\* different answers or failures in a run.
Resume(c, op, arg, reply) ==
    LET botMsg == Message(makeId(random), reply, "bot")
        update == Update("reply", <<botMsg>>, <<FALSE>>)
        answered == IF op = "aborted" THEN answers
                    ELSE answers \cup {<<op, arg>>}
    IN  /\ Cardinality(answered) <= MaxAnswers
        /\ answers' = answered
        /\ inFlightAbort' = Null
        /\ calls' = [calls EXCEPT ![c] = FreeCall]
        /\ random' = NextRandom(random)
        /\ event' = [Event(op, c, arg) EXCEPT !.aborted = calls[c].aborted]
        /\ IF calls[c].aborted
           THEN commit(Append(queue, update), ~ownLane, messagesRef)
           ELSE \E runsNow \in BOOLEAN :
                  /\ Len(queue) < MaxQueued
                  /\ runsNow => queue = <<>>
                  /\ queue' = Append(queue, [update EXCEPT !.lane = "D",
                                                           !.eager = runsNow])
                  /\ baseState' = IF queue = <<>> THEN messages ELSE baseState
                  /\ messagesRef' = IF runsNow THEN Append(messages, botMsg)
                                    ELSE messagesRef
                  /\ UNCHANGED <<messages, loading>>
        /\ UNCHANGED <<OPENAI_API_KEY, input, ownLane, activeTab>>

\* The render that React schedules for the updates queued by the
\* continuations of send: it runs the whole queue.
render ==
    /\ Quiet
    /\ Scheduled # <<>>
    /\ commit(queue, TRUE, messagesRef)
    /\ event' = Event("render", Null, <<>>)
    /\ UNCHANGED <<OPENAI_API_KEY, ownLane, input, inFlightAbort, activeTab,
                   calls, answers, random>>

Reply_NoFallback(data) == Trim(data.content)

\* the value callOpenAI returns for a 2xx response
Reply(data) ==
    IF data.isString THEN Trim(data.content) ELSE NoResponse

\* fetch resolves with a 2xx response whose JSON body is data
FetchOk ==
    /\ Quiet
    /\ \E c \in Pending : \E data \in Responses :
          Resume(c, IF data.isString THEN "ok" ELSE "okNoContent",
                 data.content, Reply(data))

HttpErrorMessage(errText, statusLine) ==
    IF errText # <<>> THEN errText ELSE statusLine

\* the value callOpenAI returns from its catch
ErrorReply(err) ==
    IF err.name = "AbortError"
    THEN RequestAborted
    ELSE ErrorPrefix \o (IF err.message # Undefined THEN err.message ELSE RequestFailed)

\* fetch resolves with a non-2xx response
FetchHttpError ==
    /\ Quiet
    /\ \E c \in Pending : \E errText \in ErrBodies : \E statusLine \in StatusLines :
          LET err == [name |-> "Error",
                      message |-> HttpErrorMessage(errText, statusLine)]
          IN  Resume(c, "httpError", errText, ErrorReply(err))

\* fetch (or the reading of its body) rejects: with an AbortError when the
\* call's signal has been aborted, and then before any other event; with a
\* network error otherwise
FetchRejected ==
    \E c \in Pending : \E err \in Errors :
        /\ err.name = "AbortError" <=> calls[c].aborted
        /\ calls[c].aborted \/ Quiet
        /\ Resume(c, IF err.name = "AbortError" THEN "aborted" ELSE "rejected",
                  err.message, ErrorReply(err))

Next ==
    \/ render
    \/ \E v \in Inputs : onChange(v)
    \/ \E tab \in Tabs : setActiveTab(tab)
    \/ setClassSection
    \/ SendClick
    \/ onKeyDown
    \/ clearAll
    \/ FetchRejected
    \/ FetchHttpError
    \/ FetchOk

Spec == Init /\ [][Next]_vars

SettleOps == {"ok", "okNoContent", "httpError", "rejected", "aborted"}

\* a pending call settles, with whatever outcome
Settle == FetchRejected \/ FetchHttpError \/ FetchOk

\* The network layer answers, fails or reports the abort of a call as long
\* as one is pending, and React renders the updates that are queued; nothing
\* is assumed about the user's actions.
FairSpec == Spec /\ WF_vars(Settle) /\ WF_vars(render)

----------------------------------------------------------------------------
(* Properties *)

\* new extends old by exactly the messages whose senders and texts are given
Extends(old, new, senders, texts) ==
    /\ Len(new) = Len(old) + Len(senders)
    /\ SubSeq(new, 1, Len(old)) = old
    /\ \A i \in 1..Len(senders) :
         /\ new[Len(old) + i].sender = senders[i]
         /\ new[Len(old) + i].text = texts[i]

\* C1: the settlement of a cancelled call, while the call of a later send
\* is in flight, appends nothing to the conversation.
C1_CancelledCallAppendsNothing ==
    [][(event'.op \in SettleOps /\ event'.aborted /\ Live' # {})
          => messages' = messages]_vars

\* C2: an empty conversation, as a clear leaves it, stays empty in every
\* step that is not a send: neither the settlement of a call nor the render
\* that follows it puts a message into it.
C2_EmptyAfterClearUntilSend ==
    [][(messages = <<>> /\ event'.op # "send") => messages' = <<>>]_vars

\* C3: the settlement of a cancelled call leaves the loading flag
\* unchanged.
C3_CancelledCallKeepsLoading ==
    [][(event'.op \in SettleOps /\ event'.aborted)
          => loading' = loading]_vars

\* C4: at most one pending call has a signal that has not been aborted.
C4_AtMostOneLiveCall == Cardinality(Live) <= 1

\* C5: right after clear no pending call is left un-aborted.
C5_ClearCancelsEveryCall ==
    [][event'.op = "clearAll" => Live' = {}]_vars

\* C6: right after clear the conversation and its mirror are empty,
\* loading is false and there is no in-flight handle, whatever the state
\* before.
C6_ClearLandsInIdle ==
    [][event'.op = "clearAll" =>
          /\ messages' = <<>>
          /\ messagesRef' = <<>>
          /\ loading' = FALSE
          /\ inFlightAbort' = Null]_vars

\* clear has run while a call was in flight and the controller was loading
C6_Witness ==
    /\ event.op = "clearAll"
    /\ Pending # {}
    /\ messages = <<>>
    /\ ~loading
    /\ inFlightAbort = Null

\* C7: without a credential, a send of non-blank text appends exactly the
\* user message with the trimmed text and then the assistant message
\* 'Error: No API key.'.
C7_NoKeySendAppendsTwo ==
    [][(OPENAI_API_KEY = <<>> /\ event'.op = "send" /\ Trim(input) # <<>>) =>
          Extends(messages, messages', <<"user", "bot">>,
                  <<Trim(input), ErrNoKey>>)]_vars

\* a second send without a credential has extended a non-empty conversation
C7_Witness ==
    /\ OPENAI_API_KEY = <<>>
    /\ event.op = "send"
    /\ Len(messages) = 4
    /\ messages[3] = [messages[3] EXCEPT !.sender = "user", !.text = <<"a">>]
    /\ messages[4] = [messages[4] EXCEPT !.sender = "bot", !.text = ErrNoKey]

\* C8: without a credential no network call is ever pending, no handle is
\* installed and loading is false.
C8_NoKeyNoCall ==
    OPENAI_API_KEY = <<>> =>
        /\ Pending = {}
        /\ inFlightAbort = Null
        /\ loading = FALSE

\* sends and a clear have run without a credential
C8_Witness ==
    /\ OPENAI_API_KEY = <<>>
    /\ event.op = "send"
    /\ Len(messages) >= 2
    /\ loading = FALSE
    /\ Pending = {}

\* C9: a send whose input is empty or only whitespace changes neither the
\* conversation, nor loading, nor the handle, nor any call.
C9_BlankSendIsNoOp ==
    [][(event'.op = "send" /\ Trim(input) = <<>>) =>
          UNCHANGED <<messages, messagesRef, loading, inFlightAbort, calls,
                      queue>>]_vars

\* a send of whitespace-only input has run while a call was in flight
C9_Witness ==
    /\ event.op = "send"
    /\ input = <<" ">>
    /\ loading
    /\ inFlightAbort # Null
    /\ Len(messages) = 1

\* the message m stands in the conversation new after the messages of old
KeptAppended(old, new, m) ==
    /\ Len(old) <= Len(new)
    /\ SubSeq(new, 1, Len(old)) = old
    /\ \E k \in (Len(old) + 1)..Len(new) : new[k] = m

\* C10: with a credential, a send of non-blank text from idle appends the
\* user message with the trimmed text, sets loading and leaves a call
\* pending; when a call that has not been cancelled succeeds with a string
\* content, one assistant message with the trimmed content is queued, and
\* the next step that changes the conversation, unless it is a clear,
\* appends that message, and resets loading unless it is a send.
C10_SendThenSuccess ==
    [][/\ (OPENAI_API_KEY # <<>> /\ ~loading /\ Pending = {}
              /\ pendingUpdates = <<>> /\ event'.op = "send"
              /\ Trim(input) # <<>>) =>
            /\ Extends(messages, messages', <<"user">>, <<Trim(input)>>)
            /\ loading' = TRUE
            /\ event'.call \in Slots
            /\ calls[event'.call].state = "free"
            /\ calls'[event'.call] = [state |-> "pending", aborted |-> FALSE]
       /\ event'.op = "ok" =>
            /\ Extends(pendingUpdates, pendingUpdates', <<"bot">>,
                       <<Trim(event'.arg)>>)
            /\ UNCHANGED <<messages, loading>>
       /\ (event.op = "ok" /\ ~event.aborted /\ event'.op # "clearAll"
              /\ messages' # messages) =>
            /\ KeptAppended(messages, messages',
                            pendingUpdates[Len(pendingUpdates)])
            /\ event'.op # "send" => loading' = FALSE]_vars

\* C11: the request of a credentialed send is the system message followed
\* by one entry per message of the conversation as it is after the send, in
\* order, with role 'user' for sender user and 'assistant' for sender bot
\* and the text as content; its last entry is the user message just sent.
C11_RequestMirrorsConversation ==
    [][(event'.op = "send" /\ event'.call # Null) =>
          /\ Len(event'.arg) = Len(messages') + 1
          /\ event'.arg[1] = [role |-> "system", content |-> SystemPrompt]
          /\ \A i \in 1..Len(messages') :
               /\ messages'[i].sender = "user" => event'.arg[i + 1].role = "user"
               /\ messages'[i].sender = "bot" => event'.arg[i + 1].role = "assistant"
               /\ event'.arg[i + 1].content = messages'[i].text
          /\ event'.arg[Len(event'.arg)] =
               [role |-> "user", content |-> Trim(input)]]_vars

\* a send has issued a request over a conversation that holds a reply
C11_Witness ==
    /\ event.op = "send"
    /\ event.call # Null
    /\ Len(messages) = 3
    /\ messages[2].sender = "bot"
    /\ event.arg = <<[role |-> "system", content |-> SystemPrompt],
                     [role |-> "user", content |-> <<"a">>],
                     [role |-> "assistant", content |-> messages[2].text],
                     [role |-> "user", content |-> <<"a">>]>>

ErrorOps == {"httpError", "rejected"}

\* the reason shown for a failed call, from what the event recorded: the
\* error body or else the status line, the error's message or else the
\* fixed text
Reasons(e) ==
    IF e.op = "httpError"
    THEN IF e.arg # <<>> THEN {e.arg} ELSE StatusLines
    ELSE IF e.arg # Undefined THEN {e.arg} ELSE {RequestFailed}

\* C12: when a call that has not been cancelled fails with a network error
\* or a non-2xx response, one assistant message 'Error: <reason>' is
\* queued, and the next step that changes the conversation, unless it is a
\* clear, appends that message, and resets loading unless it is a send; a
\* send of non-blank text that comes after the failure leaves a new call
\* pending.
C12_FailureKeepsControllerUsable ==
    [][/\ (event'.op \in ErrorOps /\ ~event'.aborted) =>
            /\ \E reason \in Reasons(event') :
                 Extends(pendingUpdates, pendingUpdates', <<"bot">>,
                         <<ErrorPrefix \o reason>>)
            /\ UNCHANGED <<messages, loading>>
       /\ (event.op \in ErrorOps /\ ~event.aborted /\ event'.op # "clearAll"
              /\ messages' # messages) =>
            /\ KeptAppended(messages, messages',
                            pendingUpdates[Len(pendingUpdates)])
            /\ event'.op # "send" => loading' = FALSE
       /\ (event.op \in ErrorOps /\ event'.op = "send"
              /\ Trim(input) # <<>>) =>
            /\ event'.call \in Slots
            /\ calls[event'.call].state = "free"
            /\ calls'[event'.call] = [state |-> "pending", aborted |-> FALSE]]_vars

\* C13: the messages of the conversation have pairwise distinct ids.
C13_DistinctIds ==
    \A i, j \in 1..Len(messages) :
        i # j => messages[i].id # messages[j].id

C15_LoadingTracksCurrentCall ==
    /\ Live # {} => loading = TRUE
    /\ (Pending = {} /\ pendingUpdates = <<>>) => loading = FALSE

\* the conversation a holds is a prefix of the conversation b
IsPrefix(a, b) == Len(a) <= Len(b) /\ SubSeq(b, 1, Len(a)) = a

\* C17: every step that is not a clear keeps the conversation it found as
\* a prefix of the conversation it leaves.
C17_AppendOnlyBetweenClears ==
    [][event'.op # "clearAll" => IsPrefix(messages, messages')]_vars

\* C18: the handle names every pending call whose signal has not been
\* aborted.
C18_HandleNamesLiveCall ==
    \A c \in Live : inFlightAbort = c

\* a send issues a network call in this step
IssuesCall == event'.op = "send" /\ event'.call # Null

\* C16: when every issued call settles, every queued update is rendered
\* and from some point on no send issues a call any more, the controller
\* ends up, and stays, with loading false and no call pending.
C16_EventuallyIdle ==
    (<>[][~IssuesCall]_vars) => <>[](loading = FALSE /\ Pending = {})

\* the call of a send has failed and the controller is idle again
C16_Witness ==
    /\ event.op = "render"
    /\ Len(messages) = 2
    /\ messages[1].sender = "user"
    /\ messages[2].text = <<"Error: ", "Failed to fetch">>
    /\ loading = FALSE
    /\ Pending = {}

====
